---------------------------- MODULE Spec2Model ----------------------------
(***************************************************************************)
(* A model of fleetpkg-mcp: the processor flattener (FlattenProcessors,    *)
(* FlatProcessor.MarshalAttributes), the transactional package writer      *)
(* (WritePackages, createTables, insertPackage, txDone) and the background *)
(* build with its published store reference (run, initializeDatabase).     *)
(***************************************************************************)
EXTENDS Integers, Sequences, FiniteSets, TLC

VARIABLES
    procs,      \* the processor list handed to FlattenProcessors
    basePath,   \* the base JSON Pointer, as a sequence of reference tokens
    flat,       \* outcome of FlattenProcessors(procs, basePath)
    flat2,      \* outcome of a second call on the same input
    orders,     \* the map iteration order each call happened to see
    marshalled, \* outcomes of MarshalAttributes, one per record of flat, in order
    pkgs,       \* the packages under the integrations directory, in glob order
    bpc,        \* where the background build goroutine stands
    cur,        \* the unit being written: 0 for the tables, i for pkgs[i]
    tx,         \* the open transaction: the rows it has written, or NoTx
    txlog,      \* per unit, how its transaction went and the rows it had written
    store,      \* the committed rows of the file fleetpkg.db
    handles,    \* the state of the writable and of the read-only *sql.DB
    db,         \* the local variable db of initializeDatabase
    initErr,    \* the error initializeDatabase returns, or NoErr
    dbPtr,      \* the atomic.Pointer[sql.DB] the tools read
    nStore,     \* how many times dbPtr.Store was called
    initErrCh,  \* the channel the goroutine reports on
    ctxDone,    \* ctx is cancelled: by the interrupt signal, or by the return of run
    transport,  \* "http" (the -http flag is set) or "stdio"
    mainpc,     \* where run stands
    serveDone,  \* the channel the serving goroutine reports on
    runErr,     \* what run returned
    observed,   \* what the query handlers got by loading dbPtr
    reply,      \* what the tool handler that ran last returned
    entity,     \* a variable, a field, a query result or packages to be turned into rows
    params      \* what was made of entity

flattenVars == <<procs, basePath, flat, flat2, orders, marshalled>>

writeVars == <<pkgs, bpc, cur, tx, txlog, store, handles, db, initErr>>

runVars == <<dbPtr, nStore, initErrCh, ctxDone, transport, mainpc, serveDone, runErr, observed,
             reply>>

buildVars == <<writeVars, runVars>>

projVars == <<entity, params>>

pureVars == <<flattenVars, projVars>>

vars == <<flattenVars, buildVars, projVars>>

-----------------------------------------------------------------------------
(* Bounds of the model.                                                    *)

\* longest processor list (root list or on_failure list)
MaxLen == 2
\* deepest nesting of on_failure lists, the root list counted
MaxDepth == 3
\* most list entries (nil entries included) in one tree
MaxEntries == 3
\* most packages under the integrations directory
MaxPkgs == 2
\* most rows one package is written with, the integrations row aside
MaxSubs == 4
\* number of CREATE TABLE statements of database.Creates kept in the model
NumCreates == 2
\* most columns of a query result
MaxCols == 2
\* most rows of a query result
MaxRows == 2

-----------------------------------------------------------------------------
(* Values of map[string]any: tagged so that strings, floats, lists and     *)
(* maps stay apart.                                                        *)

Str(s) == [kind |-> "str", s |-> s]
\* a float64 NaN, which yaml decodes from ".nan" and encoding/json rejects
NaN == [kind |-> "nan"]
List(l) == [kind |-> "list", l |-> l]
Map(m) == [kind |-> "map", m |-> m]

EmptyMap == [k \in {} |-> NaN]

\* the *fleetpkg.Processor nil pointer
NIL == [nil |-> TRUE]

\* The processors a pipeline is written with: a type and its attribute set as
\* go-fleetpkg decodes it (the on_failure key of the YAML document is decoded
\* into OnFailure, never into Attributes).
FullAttrs == [k \in {"field", "value"} |-> IF k = "field" THEN Str("a") ELSE Str("b")]

Labels ==
    { [Type |-> "rename", Attributes |-> FullAttrs],
      [Type |-> "remove", Attributes |-> EmptyMap],
      [Type |-> "set", Attributes |-> [k \in {"value"} |-> NaN]] }

\* The orders in which a range over a map may visit the keys.
Orders == { <<"field", "value">>, <<"value", "field">> }

RECURSIVE CountEntries(_)
CountEntries(list) ==
    IF list = <<>> THEN 0
    ELSE 1 + (IF Head(list).nil THEN 0 ELSE CountEntries(Head(list).OnFailure))
           + CountEntries(Tail(list))

\* The source position of the entry at 0-based index i of the list owned by
\* the node at line `base` (0 for the root list): distinct for distinct nodes.
LineOf(base, i) == base * (MaxLen + 1) + i + 1

RECURSIVE ListsFrom(_, _, _, _)
\* The processor lists of nesting depth at most d with at most n entries, as
\* the tail starting at 0-based index i of the list owned by `base`.
ListsFrom(d, n, base, i) ==
    {<<>>} \cup
    IF n = 0 \/ i >= MaxLen THEN {}
    ELSE LET line == LineOf(base, i)
             subs == IF d > 1 THEN ListsFrom(d - 1, n - 1, line, 0) ELSE {<<>>}
             nodes == { [nil |-> FALSE, Type |-> lb.Type, Attributes |-> lb.Attributes,
                         OnFailure |-> of, FilePath |-> "default.yml",
                         Line |-> line, Column |-> 1]
                        : lb \in Labels, of \in subs }
         IN UNION { { <<e>> \o rest :
                        rest \in ListsFrom(d, n - CountEntries(<<e>>), base, i + 1) }
                    : e \in {NIL} \cup nodes }

ProcLists == ListsFrom(MaxDepth, MaxEntries, 0, 0)

BasePaths == { <<"processors">>, <<"on_failure">> }

-----------------------------------------------------------------------------
(* FlattenProcessors.                                                      *)

\* strconv of a non-negative int, as %d prints it
Itoa(i) ==
    CASE i = 0 -> "0" [] i = 1 -> "1" [] i = 2 -> "2" [] i = 3 -> "3"
      [] i = 4 -> "4" [] i = 5 -> "5" [] i = 6 -> "6" [] i = 7 -> "7"
      [] i = 8 -> "8" [] i = 9 -> "9"

\* a loop index that counts only the entries that are not nil
LoopIndexSkippingNil(processors, k) ==
    Cardinality({ j \in 1..(k - 1) : ~processors[j].nil })

\* the index i of `for i, p := range processors` at the k-th entry (1-based k)
LoopIndex(processors, k) == k - 1

\* a pointer that stops at the index: fmt.Sprintf("%s/%d", basePath, i)
JsonPointerNoType(base, i, type) == base \o <<Itoa(i)>>

\* fmt.Sprintf("%s/%d/%s", basePath, i, p.Type)
JsonPointer(base, i, type) == base \o <<Itoa(i), type>>

\* a failure branch flattened under the pointer of its owner itself
OnFailurePathNoSegment(jsonPointer) == jsonPointer

\* jsonPointer + "/on_failure"
OnFailurePath(jsonPointer) == Append(jsonPointer, "on_failure")

RECURSIVE CopyLoop(_, _, _)
CopyLoop(attrs, order, acc) ==
    IF order = <<>> THEN acc
    ELSE LET k == Head(order) IN
         IF k \in DOMAIN attrs
         THEN CopyLoop(attrs, Tail(order),
                       [x \in DOMAIN acc \cup {k} |-> IF x = k THEN attrs[k] ELSE acc[x]])
         ELSE CopyLoop(attrs, Tail(order), acc)

\* a copy that keeps only the entry the range visited last
CopyAttributesLastOnly(attrs, order) ==
    LET seen == SelectSeq(order, LAMBDA k : k \in DOMAIN attrs) IN
    IF seen = <<>> THEN EmptyMap
    ELSE [x \in {seen[Len(seen)]} |-> attrs[x]]

\* attrs := make(map[string]any); for k, v := range p.Attributes { attrs[k] = v }
CopyAttributes(attrs, order) == CopyLoop(attrs, order, EmptyMap)

\* a summary that also carries a marker of the entry's own failure branch
ProcAttrsNested(of) ==
    [t \in {of.Type} |->
        Map(IF Len(of.OnFailure) > 0
            THEN [x \in DOMAIN of.Attributes \cup {"on_failure"} |->
                     IF x = "on_failure" THEN List(<<>>) ELSE of.Attributes[x]]
            ELSE of.Attributes)]

\* procAttrs := make(map[string]any); procAttrs[of.Type] = of.Attributes
ProcAttrs(of) == [t \in {of.Type} |-> Map(of.Attributes)]

\* onFailureJSON: one procAttrs per entry of p.OnFailure, in order
OnFailureJSON(onFailure) == [j \in 1..Len(onFailure) |-> ProcAttrs(onFailure[j])]

\* attrs["on_failure"] = onFailureJSON
SetOnFailure(attrs, onFailureJSON) ==
    [x \in DOMAIN attrs \cup {"on_failure"} |->
        IF x = "on_failure" THEN List([j \in 1..Len(onFailureJSON) |-> Map(onFailureJSON[j])])
        ELSE attrs[x]]

\* FlatProcessor{Type, Attributes, JSONPointer, FilePath, Line, Column}
FlatProcessor(p, attrs, jsonPointer) ==
    [Type |-> p.Type, Attributes |-> attrs, JSONPointer |-> jsonPointer,
     FilePath |-> p.FilePath, Line |-> p.Line, Column |-> p.Column]

Panic == [panic |-> TRUE, result |-> <<>>]

RECURSIVE FlattenLoop(_, _, _, _, _)
\* The loop of FlattenProcessors from its k-th entry on, `result` being what
\* was appended so far.  of.Type on a nil entry of p.OnFailure is a nil
\* pointer dereference: the call panics.
FlattenLoop(processors, base, order, k, result) ==
    IF k > Len(processors) THEN [panic |-> FALSE, result |-> result]
    ELSE LET p == processors[k] IN
         IF p.nil THEN FlattenLoop(processors, base, order, k + 1, result)
         ELSE LET jsonPointer == JsonPointer(base, LoopIndex(processors, k), p.Type)
                  attrs == CopyAttributes(p.Attributes, order)
              IN IF Len(p.OnFailure) > 0
                 THEN LET onFailureFlat ==
                              FlattenLoop(p.OnFailure, OnFailurePath(jsonPointer), order, 1, <<>>)
                      IN IF onFailureFlat.panic THEN Panic
                         ELSE IF \E j \in 1..Len(p.OnFailure) : p.OnFailure[j].nil THEN Panic
                         ELSE FlattenLoop(processors, base, order, k + 1,
                                  Append(result \o onFailureFlat.result,
                                         FlatProcessor(p,
                                             SetOnFailure(attrs, OnFailureJSON(p.OnFailure)),
                                             jsonPointer)))
                 ELSE FlattenLoop(processors, base, order, k + 1,
                          Append(result, FlatProcessor(p, attrs, jsonPointer)))

FlattenProcessors(processors, base, order) == FlattenLoop(processors, base, order, 1, <<>>)

-----------------------------------------------------------------------------
(* encoding/json, on texts kept as sequences of tokens: [p |-> c] for the   *)
(* punctuation c and [s |-> x] for the string literal "x".                  *)

P(c) == [p |-> c]
S(x) == [s |-> x]

\* every map key of the model, in the byte order json.Marshal sorts keys by
KeyOrder == <<"field", "on_failure", "remove", "rename", "set", "value">>

SortedKeys(m) == SelectSeq(KeyOrder, LAMBDA k : k \in DOMAIN m)

EncErr == [err |-> TRUE, toks |-> <<>>]

RECURSIVE EncValue(_)
RECURSIVE EncElems(_, _)
RECURSIVE EncMembers(_, _)

\* the elements of a list from its i-th on, comma separated
EncElems(l, i) ==
    IF i > Len(l) THEN [err |-> FALSE, toks |-> <<>>]
    ELSE LET e == EncValue(l[i])
             rest == EncElems(l, i + 1)
         IN IF e.err \/ rest.err THEN EncErr
            ELSE [err |-> FALSE,
                  toks |-> (IF i > 1 THEN <<P(",")>> ELSE <<>>) \o e.toks \o rest.toks]

\* the members of map m for the keys `keys` from the i-th on
EncMembers(m, i) ==
    LET keys == SortedKeys(m) IN
    IF i > Len(keys) THEN [err |-> FALSE, toks |-> <<>>]
    ELSE LET e == EncValue(m[keys[i]])
             rest == EncMembers(m, i + 1)
         IN IF e.err \/ rest.err THEN EncErr
            ELSE [err |-> FALSE,
                  toks |-> (IF i > 1 THEN <<P(",")>> ELSE <<>>)
                           \o <<S(keys[i]), P(":")>> \o e.toks \o rest.toks]

\* json.Marshal: an UnsupportedValueError for NaN
EncValue(v) ==
    CASE v.kind = "str" -> [err |-> FALSE, toks |-> <<S(v.s)>>]
      [] v.kind = "nan" -> EncErr
      [] v.kind = "list" ->
            LET e == EncElems(v.l, 1) IN
            IF e.err THEN EncErr
            ELSE [err |-> FALSE, toks |-> <<P("[")>> \o e.toks \o <<P("]")>>]
      [] v.kind = "map" ->
            LET e == EncMembers(v.m, 1) IN
            IF e.err THEN EncErr
            ELSE [err |-> FALSE, toks |-> <<P("{")>> \o e.toks \o <<P("}")>>]

DecErr == [ok |-> FALSE, v |-> NaN, next |-> 0]

IsP(t, i, c) == i <= Len(t) /\ "p" \in DOMAIN t[i] /\ t[i].p = c
IsS(t, i) == i <= Len(t) /\ "s" \in DOMAIN t[i]

RECURSIVE DecValue(_, _)
RECURSIVE DecElems(_, _, _)
RECURSIVE DecMembers(_, _, _)

\* the elements of an array after its "[" or a ",", acc being those read
DecElems(t, i, acc) ==
    LET e == DecValue(t, i) IN
    IF ~e.ok THEN DecErr
    ELSE IF IsP(t, e.next, ",") THEN DecElems(t, e.next + 1, Append(acc, e.v))
    ELSE IF IsP(t, e.next, "]")
         THEN [ok |-> TRUE, v |-> List(Append(acc, e.v)), next |-> e.next + 1]
    ELSE DecErr

\* the members of an object after its "{" or a ",", acc being those read
DecMembers(t, i, acc) ==
    IF ~(IsS(t, i) /\ IsP(t, i + 1, ":")) THEN DecErr
    ELSE LET e == DecValue(t, i + 2)
             m == [k \in DOMAIN acc \cup {t[i].s} |-> IF k = t[i].s THEN e.v ELSE acc[k]]
         IN IF ~e.ok THEN DecErr
            ELSE IF IsP(t, e.next, ",") THEN DecMembers(t, e.next + 1, m)
            ELSE IF IsP(t, e.next, "}")
                 THEN [ok |-> TRUE, v |-> Map(m), next |-> e.next + 1]
            ELSE DecErr

DecValue(t, i) ==
    IF IsS(t, i) THEN [ok |-> TRUE, v |-> Str(t[i].s), next |-> i + 1]
    ELSE IF IsP(t, i, "[")
         THEN IF IsP(t, i + 1, "]")
              THEN [ok |-> TRUE, v |-> List(<<>>), next |-> i + 2]
              ELSE DecElems(t, i + 1, <<>>)
    ELSE IF IsP(t, i, "{")
         THEN IF IsP(t, i + 1, "}")
              THEN [ok |-> TRUE, v |-> Map(EmptyMap), next |-> i + 2]
              ELSE DecMembers(t, i + 1, EmptyMap)
    ELSE DecErr

\* var decoded map[string]any; err = json.Unmarshal([]byte(result), &decoded)
Unmarshal(text) ==
    LET d == DecValue(text, 1) IN
    IF d.ok /\ d.next = Len(text) + 1 /\ d.v.kind = "map"
    THEN [ok |-> TRUE, decoded |-> d.v.m]
    ELSE [ok |-> FALSE, decoded |-> EmptyMap]

\* MarshalAttributes without its len(fp.Attributes) == 0 shortcut
MarshalAttributesNoShortcut(fp) ==
    LET data == EncValue(Map(fp.Attributes)) IN
    IF data.err THEN [text |-> <<>>, err |-> TRUE]
    ELSE [text |-> data.toks, err |-> FALSE]

\* FlatProcessor.MarshalAttributes: ("", nil) for no attributes, else the
\* JSON text, or ("", err) when json.Marshal fails.
MarshalAttributes(fp) ==
    IF Cardinality(DOMAIN fp.Attributes) = 0 THEN [text |-> <<>>, err |-> FALSE]
    ELSE LET data == EncValue(Map(fp.Attributes)) IN
         IF data.err THEN [text |-> <<>>, err |-> TRUE]
         ELSE [text |-> data.toks, err |-> FALSE]

\* sqlStringEmtpyIsNull: the empty string is stored as NULL
sqlStringEmtpyIsNull(str) ==
    IF str = <<>> THEN [String |-> <<>>, Valid |-> FALSE]
    ELSE [String |-> str, Valid |-> TRUE]

-----------------------------------------------------------------------------
(* The background build: initializeDatabase, WritePackages, createTables,   *)
(* insertPackage and txDone, one step per call that can fail.               *)

\* FlattenProcessors has not returned yet
None == [none |-> TRUE]

NoTx == [none |-> TRUE]
NoErr == [none |-> TRUE]

\* The directory packages/*: package i has the directory name i and is
\* written with one integrations row and subs further rows: none for a
\* bare package, MaxSubs for one with policy templates, data streams, ...
Corpora ==
    UNION { { [i \in 1..n |-> [dir |-> i, subs |-> c[i]]] : c \in [1..n -> {0, MaxSubs}] }
            : n \in 0..MaxPkgs }

\* the statements of a unit: database.Creates for the tables, the
\* integrations row and the rows of the sub-entities for a package
Statements(u) == IF u = 0 THEN NumCreates ELSE 1 + pkgs[u].subs

Rows(u) == { [unit |-> u, n |-> k] : k \in 1..Statements(u) }

\* initializeDatabase returns (nil, err)
Fail(op, u) ==
    /\ initErr' = [op |-> op, pkg |-> u]
    /\ db' = "none"
    /\ bpc' = "report"

\* pkgs, err := loadPackages(log, integrationsDir)
LoadPackages ==
    /\ mainpc # "exited"
    /\ bpc = "load"
    /\ \E ok \in BOOLEAN :
          IF ok /\ Len(pkgs) > 0
          THEN bpc' = "remove" /\ UNCHANGED <<db, initErr>>
          ELSE Fail("load", 0)
    /\ UNCHANGED <<pkgs, cur, tx, txlog, store, handles, runVars, pureVars>>

\* os.Remove("fleetpkg.db")
RemoveOld ==
    /\ mainpc # "exited"
    /\ bpc = "remove"
    /\ \E ok \in BOOLEAN :
          IF ok
          THEN bpc' = "open" /\ store' = {} /\ UNCHANGED <<db, initErr>>
          ELSE Fail("remove", 0) /\ UNCHANGED store
    /\ UNCHANGED <<pkgs, cur, tx, txlog, handles, runVars, pureVars>>

\* an initializeDatabase that hands the fresh handle to the tools at once
OpenDBPublishing ==
    /\ mainpc # "exited"
    /\ bpc = "open"
    /\ \E ok \in BOOLEAN :
          IF ok
          THEN /\ bpc' = "begin"
               /\ db' = "rw"
               /\ handles' = [handles EXCEPT !.rw = "open"]
               /\ dbPtr' = "rw"
               /\ nStore' = nStore + 1
               /\ UNCHANGED initErr
          ELSE Fail("open", 0) /\ UNCHANGED <<handles, dbPtr, nStore>>
    /\ UNCHANGED <<pkgs, cur, tx, txlog, store, initErrCh, ctxDone, transport, mainpc,
                   serveDone, runErr, observed, reply, pureVars>>

\* db, err := sql.Open("sqlite", "file:fleetpkg.db")
OpenDB ==
    /\ mainpc # "exited"
    /\ bpc = "open"
    /\ \E ok \in BOOLEAN :
          IF ok
          THEN /\ bpc' = "begin"
               /\ db' = "rw"
               /\ handles' = [handles EXCEPT !.rw = "open"]
               /\ UNCHANGED initErr
          ELSE Fail("open", 0) /\ UNCHANGED handles
    /\ UNCHANGED <<pkgs, cur, tx, txlog, store, runVars, pureVars>>

\* an error message that names the last package of the corpus
FailingPackageLast(u) == pkgs[Len(pkgs)].dir

\* filepath.Base(in.Path()) in "failed inserting %q: %w"
FailingPackage(u) == pkgs[u].dir

\* WritePackages returns an error that wraps the cause, "failed creating
\* tables: %w" or "failed inserting %q: %w"; initializeDatabase closes db
\* and returns
WriteFailed(cause) ==
    /\ handles' = [handles EXCEPT !.rw = "closed"]
    /\ initErr' = IF cur = 0 THEN [op |-> "tables", pkg |-> 0, cause |-> cause]
                  ELSE [op |-> "insert", pkg |-> FailingPackage(cur), cause |-> cause]
    /\ db' = "none"
    /\ bpc' = "report"

\* tx, err := db.Begin(), in createTables and in insertPackage
BeginTx ==
    /\ mainpc # "exited"
    /\ bpc = "begin"
    /\ \E ok \in BOOLEAN :
          IF ok
          THEN /\ tx' = [rows |-> {}, err |-> FALSE, panic |-> FALSE]
               /\ txlog' = [txlog EXCEPT ![cur] = [st |-> "begun", n |-> 0]]
               /\ bpc' = "exec"
               /\ UNCHANGED <<handles, db, initErr>>
          ELSE WriteFailed("begin") /\ UNCHANGED <<tx, txlog>>
    /\ UNCHANGED <<pkgs, cur, store, runVars, pureVars>>

\* the outcomes of the next statement of a unit: a pipeline of a package,
\* whose row is written after the integrations row, may hold a processor
\* with a nil entry in its failure branch, and FlattenProcessors panics on it
Outcomes == IF cur > 0 /\ Cardinality(tx.rows) > 0 THEN {"ok", "error", "panic"}
            ELSE {"ok", "error"}

\* one tx.ExecContext(ctx, ...) or q.Insert...(ctx, ...): it fails once ctx
\* is cancelled, and may fail otherwise; the function returns at the first
\* error, and unwinds when FlattenProcessors panics
Exec ==
    /\ mainpc # "exited"
    /\ bpc = "exec"
    /\ ~tx.err /\ ~tx.panic
    /\ Cardinality(tx.rows) < Statements(cur)
    /\ \E r \in Outcomes :
          CASE r = "panic" ->
                 /\ tx' = [tx EXCEPT !.panic = TRUE]
                 /\ txlog' = [txlog EXCEPT ![cur] = [st |-> "panicked", n |-> Cardinality(tx.rows)]]
            [] r = "ok" /\ ~ctxDone ->
                 /\ tx' = [tx EXCEPT !.rows = @ \cup {[unit |-> cur, n |-> Cardinality(tx.rows) + 1]}]
                 /\ UNCHANGED txlog
            [] OTHER ->
                 /\ tx' = [tx EXCEPT !.err = TRUE]
                 /\ txlog' = [txlog EXCEPT ![cur] = [st |-> "failed", n |-> Cardinality(tx.rows)]]
    /\ UNCHANGED <<pkgs, bpc, cur, store, handles, db, initErr, runVars, pureVars>>

\* txDone: if *err == nil { *err = tx.Commit() } else { tx.Rollback() }
TxCommits(err) == ~err

\* a loop over pkgs that goes on after a failed insertPackage
WriteContinuesAlways(err) == TRUE

\* WritePackages: if err := insertPackage(...); err != nil { return ... }
WriteContinues(err) == ~err

\* a WritePackages that goes on to the packages whatever createTables returned
CreateTablesContinuesAlways(err) == TRUE

\* WritePackages: if err := createTables(ctx, db); err != nil { return ... }
CreateTablesContinues(err) == ~err

\* the deferred txDone of createTables or insertPackage, and what
\* WritePackages does with the error it gets; txDone runs as well while a
\* panic unwinds, with *err still nil, and the panic then ends the process
TxDone ==
    /\ mainpc # "exited"
    /\ bpc = "exec"
    /\ tx.err \/ tx.panic \/ Cardinality(tx.rows) = Statements(cur)
    /\ tx' = NoTx
    /\ \E ok \in BOOLEAN :
          LET commits == TxCommits(tx.err)
              err == IF commits THEN ~ok ELSE TRUE
              goesOn == IF cur = 0 THEN CreateTablesContinues(err) ELSE WriteContinues(err)
          IN /\ IF commits /\ ok
                THEN /\ store' = store \cup tx.rows
                     /\ txlog' = [txlog EXCEPT ![cur] = [st |-> "committed",
                                                         n |-> Cardinality(tx.rows)]]
                ELSE /\ UNCHANGED store
                     /\ txlog' = [txlog EXCEPT ![cur] =
                                      [st |-> IF commits THEN "commitfailed" ELSE "rolledback",
                                       n |-> Cardinality(tx.rows)]]
             /\ CASE tx.panic ->
                       /\ bpc' = "crashed"
                       /\ mainpc' = "exited"
                       /\ runErr' = "panic"
                       /\ UNCHANGED <<cur, handles, db, initErr>>
                  [] ~tx.panic /\ goesOn ->
                       /\ cur' = cur + 1
                       /\ bpc' = IF cur < Len(pkgs) THEN "begin" ELSE "close"
                       /\ UNCHANGED <<handles, db, initErr, mainpc, runErr>>
                  [] OTHER -> /\ WriteFailed(IF tx.err THEN "exec" ELSE "commit")
                              /\ UNCHANGED <<cur, mainpc, runErr>>
    /\ UNCHANGED <<pkgs, dbPtr, nStore, initErrCh, ctxDone, transport, serveDone, observed, reply,
                   pureVars>>

\* err = db.Close(), after WritePackages returned nil
CloseDB ==
    /\ mainpc # "exited"
    /\ bpc = "close"
    /\ handles' = [handles EXCEPT !.rw = "closed"]
    /\ \E ok \in BOOLEAN :
          IF ok THEN bpc' = "reopen" /\ UNCHANGED <<db, initErr>>
          ELSE Fail("close", 0)
    /\ UNCHANGED <<pkgs, cur, tx, txlog, store, runVars, pureVars>>

\* an initializeDatabase that returns the handle it has written with
ReopenKeepingWritable ==
    /\ mainpc # "exited"
    /\ bpc = "reopen"
    /\ db' = "rw"
    /\ handles' = [handles EXCEPT !.rw = "open"]
    /\ bpc' = "report"
    /\ UNCHANGED <<pkgs, cur, tx, txlog, store, initErr, runVars, pureVars>>

\* db, err = sql.Open("sqlite", "file:fleetpkg.db?mode=ro"); return db, nil
Reopen ==
    /\ mainpc # "exited"
    /\ bpc = "reopen"
    /\ \E ok \in BOOLEAN :
          IF ok
          THEN /\ db' = "ro"
               /\ handles' = [handles EXCEPT !.ro = "open"]
               /\ bpc' = "report"
               /\ UNCHANGED initErr
          ELSE Fail("reopen", 0) /\ UNCHANGED handles
    /\ UNCHANGED <<pkgs, cur, tx, txlog, store, runVars, pureVars>>

-----------------------------------------------------------------------------
(* run: the goroutine around initializeDatabase, the serving goroutine, the *)
(* select of the main task, the interrupt and the query handlers.           *)

\* initErrCh := make(chan error, 1)
ChanCap == 1

\* a send on a channel without a buffer, make(chan error): it completes
\* only when the main task stands at its select
CanSendUnbuffered == mainpc = "select"

\* a send on initErrCh can complete: the buffer has room, or the main task
\* stands at its select and takes the value at once
CanSend == Len(initErrCh.buf) < ChanCap \/ mainpc = "select"

\* if err != nil { initErrCh <- err; return }
SendInitErr ==
    /\ mainpc # "exited"
    /\ bpc = "report"
    /\ initErr # NoErr
    /\ CanSend
    /\ initErrCh' = [initErrCh EXCEPT !.buf = Append(@, initErr)]
    /\ bpc' = "done"
    /\ UNCHANGED <<pkgs, cur, tx, txlog, store, handles, db, initErr, dbPtr, nStore, ctxDone,
                   transport, mainpc, serveDone, runErr, observed, reply, pureVars>>

\* dbPtr.Store(db)
Publish ==
    /\ mainpc # "exited"
    /\ bpc = "report"
    /\ initErr = NoErr
    /\ dbPtr' = db
    /\ nStore' = nStore + 1
    /\ bpc' = "closech"
    /\ UNCHANGED <<pkgs, cur, tx, txlog, store, handles, db, initErr, initErrCh, ctxDone,
                   transport, mainpc, serveDone, runErr, observed, reply, pureVars>>

\* close(initErrCh)
CloseInitErrCh ==
    /\ mainpc # "exited"
    /\ bpc = "closech"
    /\ initErrCh' = [initErrCh EXCEPT !.closed = TRUE]
    /\ bpc' = "done"
    /\ UNCHANGED <<pkgs, cur, tx, txlog, store, handles, db, initErr, dbPtr, nStore, ctxDone,
                   transport, mainpc, serveDone, runErr, observed, reply, pureVars>>

\* signal.NotifyContext(context.Background(), os.Interrupt): the signal
Interrupt ==
    /\ mainpc \notin {"returned", "exited"}
    /\ ~ctxDone
    /\ ctxDone' = TRUE
    /\ UNCHANGED <<writeVars, dbPtr, nStore, initErrCh, transport, mainpc, serveDone, runErr,
                   observed, reply, pureVars>>

\* net.Listen for -http, then the serving goroutine is started
StartServing ==
    /\ mainpc = "start"
    /\ \E ok \in BOOLEAN :
          IF transport = "http" /\ ~ok
          THEN mainpc' = "returned" /\ runErr' = "listen" /\ ctxDone' = TRUE
          ELSE mainpc' = "select" /\ UNCHANGED <<runErr, ctxDone>>
    /\ UNCHANGED <<writeVars, dbPtr, nStore, initErrCh, transport, serveDone, observed, reply,
                   pureVars>>

Serving == mainpc \in {"select", "waitServe"} /\ serveDone = <<>>

\* a server that does not return once ctx is cancelled: no goroutine
\* closes the listener, Run does not look at ctx
ServeReturnsUnlessCancelled ==
    /\ Serving
    /\ ~ctxDone
    /\ \E err \in IF transport = "http" THEN {"err"} ELSE {"nil", "err"} :
          serveDone' = <<err>>
    /\ UNCHANGED <<writeVars, dbPtr, nStore, initErrCh, ctxDone, transport, mainpc, runErr,
                   observed, reply, pureVars>>

\* serveDone <- http.Serve(listener, handler), which never returns nil, or
\* serveDone <- s.Run(ctx, t)
ServeReturns ==
    /\ Serving
    /\ \E err \in IF transport = "http" THEN {"err"} ELSE {"nil", "err"} :
          serveDone' = <<err>>
    /\ UNCHANGED <<writeVars, dbPtr, nStore, initErrCh, ctxDone, transport, mainpc, runErr,
                   observed, reply, pureVars>>

\* every package committed, the writable handle closed, the file reopened
Built ==
    /\ Len(pkgs) > 0
    /\ \A u \in 0..Len(pkgs) : Rows(u) \subseteq store
    /\ handles = [rw |-> "closed", ro |-> "open"]

\* the values a scan of *sql.Rows yields
IntVal(k) == [int |-> k]
BytesVal(b) == [bytes |-> b]
TextVal(t) == [text |-> t]
InfVal == [float |-> "+Inf"]

\* if b, ok := val.([]byte); ok { row[column] = string(b) } else { row[column] = val }
ScanValue(val) == IF "bytes" \in DOMAIN val THEN TextVal(val.bytes) ELSE val

RECURSIVE RowLoop(_, _, _, _)
\* row := make(map[string]interface{}); for i, column := range columns { row[column] = ... }
RowLoop(columns, values, i, row) ==
    IF i > Len(columns) THEN row
    ELSE RowLoop(columns, values, i + 1,
                 [c \in DOMAIN row \cup {columns[i]} |->
                     IF c = columns[i] THEN ScanValue(values[i]) ELSE row[c]])

RECURSIVE ResultLoop(_, _, _, _)
\* var result []map[string]interface{}; for rows.Next() { ...; result = append(result, row) }
ResultLoop(columns, rows, i, result) ==
    IF i > Len(rows) THEN result
    ELSE ResultLoop(columns, rows, i + 1,
                    [nil |-> FALSE,
                     list |-> Append(result.list, RowLoop(columns, rows[i], 1, EmptyMap))])

\* json.Marshal(result): a nil slice is null, a value that is not finite is an error
MarshalResult(result) ==
    IF result.nil THEN [err |-> FALSE, json |-> [null |-> TRUE]]
    ELSE IF \E i \in 1..Len(result.list) : \E c \in DOMAIN result.list[i] :
                result.list[i][c] = InfVal
         THEN [err |-> TRUE, json |-> [null |-> TRUE]]
         ELSE [err |-> FALSE, json |-> [array |-> result.list]]

\* the handler's three results with an mcpErrorf of a generic failure as err
mcpErrorfAsFailure(msg, cause) ==
    [result |-> [isError |-> TRUE, content |-> [msg |-> msg, cause |-> cause]], err |-> cause]

\* return mcpErrorf(format, args...), nil, nil
mcpErrorf(msg, cause) ==
    [result |-> [isError |-> TRUE, content |-> [msg |-> msg, cause |-> cause]], err |-> "nil"]

\* the rows of executeQuery, from rows.Columns() on
RowsResult(columns, rows) ==
    LET jsonRows == MarshalResult(ResultLoop(columns, rows, 1, [nil |-> TRUE, list |-> <<>>]))
    IN IF jsonRows.err THEN mcpErrorf("failed to marshal result", "unsupported value")
       ELSE [result |-> [isError |-> FALSE, content |-> jsonRows.json], err |-> "nil"]

\* the statements a caller sends
Queries == {"count", "bogus", "insert"}

\* the error of db.QueryContext(ctx, stmt) on handle h, "" for none: the
\* statement does not parse, or it writes and the file was opened mode=ro
QueryError(h, stmt, cancelled) ==
    CASE cancelled -> "context canceled"
      [] stmt = "bogus" -> "syntax error"
      [] stmt = "insert" /\ h = "ro" -> "attempt to write a readonly database"
      [] OTHER -> ""

\* a handler that answers with no rows while nothing is published
NotReadyAsEmpty == [result |-> [isError |-> FALSE, content |-> [array |-> <<>>]], err |-> "nil"]

\* if db == nil { return mcpErrorf("database is still initializing, ...") }
NotReady == mcpErrorf("database is still initializing, please retry in a moment", "")

\* the body of executeQuery for what t.db.Load() gave
QueryReply(h, stmt, cancelled) ==
    IF h = "none" THEN NotReady
    ELSE IF QueryError(h, stmt, cancelled) # ""
         THEN mcpErrorf("failed to execute query", QueryError(h, stmt, cancelled))
         ELSE IF stmt = "count"
              THEN RowsResult(<<"n">>, << <<IntVal(Cardinality(store))>> >>)
              ELSE RowsResult(<<"n">>, <<>>)

\* where the build stands, in the words of the build's state machine
BuildState ==
    CASE dbPtr # "none" -> "Ready"
      [] initErr # NoErr \/ bpc = "crashed" -> "Failed"
      [] bpc = "load" -> "Idle"
      [] OTHER -> "Building"

\* db := t.db.Load(), the read of the pointer given to AddTools
LoadRef == observed' = observed \cup {[ref |-> dbPtr, built |-> Built]}

\* a fleetpkg_execute_sql_query call is handled
ExecuteQuery ==
    /\ Serving
    /\ LoadRef
    /\ \E stmt \in Queries, cancelled \in BOOLEAN :
          LET r == QueryReply(dbPtr, stmt, cancelled)
          IN /\ reply' = [tool |-> "query", stmt |-> stmt, ref |-> dbPtr, result |-> r.result,
                          err |-> r.err, during |-> BuildState,
                          afterRejected |-> IF reply = None THEN FALSE
                                            ELSE reply.afterRejected \/ reply.rejected,
                          rejected |-> /\ dbPtr # "none"
                                       /\ QueryError(dbPtr, stmt, cancelled) # ""]
             /\ store' = IF dbPtr # "none" /\ stmt = "insert"
                            /\ QueryError(dbPtr, stmt, cancelled) = ""
                         THEN store \cup {[unit |-> -1, n |-> 1]}
                         ELSE store
    /\ UNCHANGED <<pkgs, bpc, cur, tx, txlog, handles, db, initErr, dbPtr, nStore, initErrCh,
                   ctxDone, transport, mainpc, serveDone, runErr, pureVars>>

\* fleetsql.TableSchemas(): database.Creates
TableSchemas == [k \in 1..NumCreates |-> k]

\* a getSQLTables that answers like executeQuery while nothing is published
GetSQLTablesReplyWhenReady(tables) ==
    IF dbPtr = "none" THEN NotReady
    ELSE [result |-> [isError |-> FALSE, content |-> [schemas |-> tables]], err |-> "nil"]

\* return &mcp.CallToolResult{Content: ... strings.Join(t.tables, "\n")}, nil, nil
GetSQLTablesReply(tables) ==
    [result |-> [isError |-> FALSE, content |-> [schemas |-> tables]], err |-> "nil"]

\* a fleetpkg_get_sql_tables call is handled
GetSQLTables ==
    /\ Serving
    /\ LET r == GetSQLTablesReply(TableSchemas)
       IN reply' = [tool |-> "tables", stmt |-> "", ref |-> "none", result |-> r.result,
                    err |-> r.err, during |-> BuildState,
                    afterRejected |-> IF reply = None THEN FALSE
                                      ELSE reply.afterRejected \/ reply.rejected,
                    rejected |-> FALSE]
    /\ UNCHANGED <<writeVars, dbPtr, nStore, initErrCh, ctxDone, transport, mainpc, serveDone,
                   runErr, observed, pureVars>>

\* case <-ctx.Done(): return nil; a return of run cancels ctx (defer cancel())
SelectCtxDone ==
    /\ mainpc = "select"
    /\ ctxDone
    /\ mainpc' = "returned"
    /\ runErr' = "nil"
    /\ UNCHANGED <<writeVars, dbPtr, nStore, initErrCh, ctxDone, transport, serveDone, observed, reply,
                   pureVars>>

\* a select that goes on serving whatever it receives from initErrCh
SelectInitErrIgnoringError ==
    /\ mainpc = "select"
    /\ initErrCh.buf # <<>> \/ initErrCh.closed
    /\ initErrCh' = [initErrCh EXCEPT !.buf = IF @ = <<>> THEN @ ELSE Tail(@)]
    /\ mainpc' = "waitServe"
    /\ UNCHANGED <<writeVars, dbPtr, nStore, ctxDone, transport, serveDone, runErr, observed,
                   reply, pureVars>>

\* case err := <-initErrCh: an error was sent, or the channel was closed
SelectInitErr ==
    /\ mainpc = "select"
    /\ \/ /\ initErrCh.buf # <<>>
          /\ initErrCh' = [initErrCh EXCEPT !.buf = Tail(@)]
          /\ mainpc' = "returned"
          /\ runErr' = "init"
          /\ ctxDone' = TRUE
       \/ /\ initErrCh.buf = <<>>
          /\ initErrCh.closed
          /\ mainpc' = "waitServe"
          /\ UNCHANGED <<initErrCh, runErr, ctxDone>>
    /\ UNCHANGED <<writeVars, dbPtr, nStore, transport, serveDone, observed, reply, pureVars>>

\* main returns once run has returned, or calls os.Exit(1): the process
\* ends, and the goroutines of the build and of the server with it
Exit ==
    /\ mainpc = "returned"
    /\ mainpc' = "exited"
    /\ UNCHANGED <<writeVars, dbPtr, nStore, initErrCh, ctxDone, transport, serveDone, runErr,
                   observed, reply, pureVars>>

\* run has returned
Returned == mainpc \in {"returned", "exited"}

\* what run makes of the value of serveDone: for stdio, nil stays nil
ServeResult(err) == IF transport = "stdio" /\ err = "nil" THEN "nil" ELSE "serve"

\* case err := <-serveDone
SelectServeDone ==
    /\ mainpc = "select"
    /\ serveDone # <<>>
    /\ mainpc' = "returned"
    /\ runErr' = ServeResult(Head(serveDone))
    /\ serveDone' = Tail(serveDone)
    /\ ctxDone' = TRUE
    /\ UNCHANGED <<writeVars, dbPtr, nStore, initErrCh, transport, observed, reply, pureVars>>

\* return <-serveDone, after the build succeeded
WaitServe ==
    /\ mainpc = "waitServe"
    /\ serveDone # <<>>
    /\ mainpc' = "returned"
    /\ runErr' = IF Head(serveDone) = "nil" THEN "nil" ELSE "serve"
    /\ serveDone' = Tail(serveDone)
    /\ ctxDone' = TRUE
    /\ UNCHANGED <<writeVars, dbPtr, nStore, initErrCh, transport, observed, reply, pureVars>>

\* the state of a process that has not built anything
BuildIdle ==
    /\ bpc = "load"
    /\ cur = 0
    /\ tx = NoTx
    /\ txlog = [u \in 0..Len(pkgs) |-> [st |-> "none", n |-> 0]]
    /\ store = {}
    /\ handles = [rw |-> "none", ro |-> "none"]
    /\ db = "none"
    /\ initErr = NoErr
    /\ dbPtr = "none"
    /\ nStore = 0
    /\ initErrCh = [buf |-> <<>>, closed |-> FALSE]
    /\ ctxDone = FALSE
    /\ mainpc = "start"
    /\ serveDone = <<>>
    /\ runErr = "none"
    /\ observed = {}
    /\ reply = None

ProjIdle ==
    /\ entity = None
    /\ params = None

FlattenIdle ==
    /\ procs = <<>>
    /\ basePath = <<"processors">>
    /\ flat = None
    /\ flat2 = None
    /\ orders = <<>>
    /\ marshalled = <<>>

InitBuild ==
    /\ pkgs \in Corpora
    /\ transport \in {"http", "stdio"}
    /\ BuildIdle
    /\ FlattenIdle
    /\ ProjIdle

NextBuild ==
    \/ LoadPackages \/ RemoveOld \/ OpenDB \/ BeginTx \/ Exec \/ TxDone
    \/ CloseDB \/ Reopen \/ SendInitErr \/ Publish \/ CloseInitErrCh
    \/ Interrupt \/ StartServing \/ ServeReturns \/ ExecuteQuery \/ GetSQLTables
    \/ SelectCtxDone \/ SelectInitErr \/ SelectServeDone \/ WaitServe \/ Exit

SpecBuild == InitBuild /\ [][NextBuild]_vars

\* the select of run, which takes one of its cases that are ready
Select == SelectCtxDone \/ SelectInitErr \/ SelectServeDone

\* The main task is scheduled: it goes on to its select, a select with a
\* ready case takes one, and a receive from serveDone takes the value that
\* is there. Once ctx is cancelled the server returns: the goroutine that
\* waits for ctx.Done() closes the listener, which ends http.Serve, and
\* s.Run(ctx, t) returns on a cancelled ctx. Nothing is assumed of the
\* build, of the handlers, or of a server whose ctx is not cancelled.
SpecBuildFair ==
    /\ SpecBuild
    /\ WF_vars(StartServing)
    /\ WF_vars(Select)
    /\ WF_vars(WaitServe)
    /\ WF_vars(ServeReturns /\ ctxDone)

-----------------------------------------------------------------------------
(* The projection of entities to row parameters (insertVar, insertField)    *)
(* and of query results to the tool's reply (executeQuery), as functions    *)
(* of their inputs. A Go string is the empty sequence or a one-element one. *)

NullString == [String |-> <<>>, Valid |-> FALSE]

\* reflect.Value.IsZero for the values of the model: the empty string
IsZero(v) == v.kind = "str" /\ v.s = ""

\* jsonNullString without the test for an empty slice
jsonNullStringNoSliceTest(v) ==
    IF v = NIL \/ IsZero(v) THEN NullString
    ELSE [String |-> EncValue(v).toks, Valid |-> TRUE]

\* jsonNullString: NULL for an invalid or zero value and for an empty slice,
\* else the JSON text, the error of json.Marshal being dropped (j, _ :=)
jsonNullString(v) ==
    IF v = NIL \/ IsZero(v) THEN NullString
    ELSE IF v.kind = "list" /\ Len(v.l) = 0 THEN NullString
    ELSE [String |-> EncValue(v).toks, Valid |-> TRUE]

\* the parameters of q.InsertVar that depend on the default value
insertVar(v) == [Name |-> v.Name, DefaultValue |-> jsonNullString(v.Default)]

\* a merge that lets the external definition win over the local property
MergeExternalAlways(local, external) ==
    IF external # <<>> THEN sqlStringEmtpyIsNull(external) ELSE local

\* if !p.X.Valid && externalDef.X != "" { p.X = sqlStringEmtpyIsNull(externalDef.X) }
MergeExternal(local, external) ==
    IF ~local.Valid /\ external # <<>> THEN sqlStringEmtpyIsNull(external) ELSE local

\* a writer that marks every field for which no definition was passed
UnresolvableWhenNil(f, externalDef) == externalDef = NIL

\* else if externalDef == nil && f.External == "ecs"
Unresolvable(f, externalDef) == externalDef = NIL /\ f.External = <<"ecs">>

\* the parameters of q.InsertField that the external definition may fill in
insertField(f, externalDef) ==
    LET p == [Type |-> sqlStringEmtpyIsNull(f.Type),
              Description |-> sqlStringEmtpyIsNull(f.Description),
              Pattern |-> sqlStringEmtpyIsNull(f.Pattern),
              Normalize |-> jsonNullString(f.Normalize),
              Normalizer |-> sqlStringEmtpyIsNull(f.Normalizer),
              External |-> sqlStringEmtpyIsNull(f.External),
              Unresolvable |-> FALSE]
    IN IF externalDef # NIL
       THEN [p EXCEPT !.Type = MergeExternal(p.Type, externalDef.DataType),
                      !.Pattern = MergeExternal(p.Pattern, externalDef.Pattern),
                      !.Normalize = IF ~p.Normalizer.Valid /\ externalDef.Array
                                    THEN jsonNullString(List(<<Str("array")>>))
                                    ELSE p.Normalize,
                      !.Description = MergeExternal(p.Description, externalDef.Description)]
       ELSE IF Unresolvable(f, externalDef) THEN [p EXCEPT !.Unresolvable = TRUE] ELSE p

\* var externalDef *ecs.Field; if f.External == "ecs" && in.Build != nil &&
\* in.Build.Dependencies.ECS.Reference != "" { externalDef, _ = ecs.Lookup(...) }
LookupExternal(f) ==
    IF f.External = <<"ecs">> /\ f.reference THEN f.ecsField ELSE NIL

\* the default values of a variable: none, lists, strings, maps, a NaN
Defaults ==
    {NIL, List(<<>>), List(<<Str("a")>>), List(<<NaN>>), Str(""), Str("a"), Map(EmptyMap),
     Map([k \in {"field"} |-> Str("a")]), NaN}

Vars == { [kind |-> "var", Name |-> n, Default |-> d] : n \in {"hosts", "period"}, d \in Defaults }

\* what ecs.Lookup answers for a name: no definition, or the definition
ExternalDefs ==
    {NIL} \cup [DataType : {<<>>, <<"long">>}, Pattern : {<<>>, <<"x+">>},
                Description : {<<>>, <<"from ecs">>}, Array : BOOLEAN]

Fields ==
    [kind : {"field"}, Type : {<<>>, <<"keyword">>}, Pattern : {<<>>, <<"y+">>},
     Description : {<<>>, <<"local">>}, Normalizer : {<<>>, <<"lowercase">>},
     Normalize : {NIL, List(<<Str("array")>>), List(<<Str("lowercase")>>)},
     External : {<<>>, <<"ecs">>}, reference : BOOLEAN, ecsField : ExternalDefs]

\* what a scan may yield for one column
ScanValues == {IntVal(1), BytesVal("x"), InfVal}

SeqsUpTo(set, n) == UNION { [1..k -> set] : k \in 0..n }

\* results of db.QueryContext: the column names, not necessarily distinct
\* (SELECT a.id, b.id ...), and any number of rows
RowSets ==
    UNION { [kind : {"rows"}, columns : {cols}, rows : SeqsUpTo([1..Len(cols) -> ScanValues], MaxRows)]
            : cols \in SeqsUpTo({"id", "name"}, MaxCols) \ {<<>>} }

\* the most streams of a data stream, and the most fields of its catalog
MaxStreams == 2

MaxCatalog == 1

\* the tables of schema.sql that the model of insertPackage writes
Tables ==
    {"integrations", "build_manifests", "vars", "integration_vars", "data_streams",
     "streams", "fields", "data_stream_fields", "ingest_pipelines", "ingest_processors",
     "sample_events", "transforms", "changelogs", "releases", "changes"}

\* the tables with a column file_path TEXT NOT NULL
FilePathTables ==
    {"integrations", "build_manifests", "vars", "data_streams", "fields",
     "ingest_pipelines", "ingest_processors", "sample_events", "transforms",
     "changelogs", "releases", "changes"}

\* the writer before WritePackages: no row, and no key given out by a table
NoRows == [rows |-> <<>>, keys |-> [t \in Tables |-> 0]]

\* a key generator that gives every row the key 1
NextKeyConstant(w, table) == 1

\* id INTEGER PRIMARY KEY AUTOINCREMENT: the key after the last of the table
NextKey(w, table) == w.keys[table] + 1

Ref(table, id) == [table |-> table, id |-> id]

\* one q.Insert...(ctx, params): the row gets the next key of its table;
\* refs are its foreign keys, node = <<data stream, stream, item>> is the
\* place in the document it was made from, filePath its FilePath parameter
Insert(w, table, refs, pkg, node, filePath) ==
    [rows |-> Append(w.rows, [table |-> table, id |-> NextKey(w, table), refs |-> refs,
                              pkg |-> pkg, node |-> node, file_path |-> filePath]),
     keys |-> [w.keys EXCEPT ![table] = NextKey(w, table)]]

\* the key the last q.Insert... into the table returned
LastKey(w, table) == Ref(table, w.keys[table])

\* m.Path(), v.Path(), f.Path(), ...: the file the provider read the node
\* from, the empty string for a node that was not read from a file
Path(in) == IF in.located THEN <<"f">> ELSE <<>>

\* in.Changelog.Path(): empty as well when the package has no changelog.yml
ChangelogPath(in) == IF in.changelog = 0 THEN <<>> ELSE Path(in)

\* a writer that inserts the changelog row whatever its path
ChangelogPresentAlways(in) == TRUE

\* if in.Changelog.Path() != ""
ChangelogPresent(in) == ChangelogPath(in) # <<>>

RECURSIVE VarsLoop(_, _, _, _)
\* for _, v := range in.Manifest.Vars: insertVar, then q.InsertIntegrationVar
VarsLoop(w, in, integID, k) ==
    IF k > in.vars THEN w
    ELSE LET w1 == Insert(w, "vars", {}, in.dir, <<0, 0, k>>, Path(in))
             w2 == Insert(w1, "integration_vars", {integID, LastKey(w1, "vars")}, in.dir,
                          <<0, 0, k>>, <<>>)
         IN VarsLoop(w2, in, integID, k + 1)

RECURSIVE FieldsLoop(_, _, _, _, _, _)
\* for _, f := range flat: insertField, then q.InsertDataStreamField
FieldsLoop(w, in, d, s, dsID, k) ==
    IF k > in.dataStreams[d].fields THEN w
    ELSE LET w1 == Insert(w, "fields", {}, in.dir, <<d, s, k>>, Path(in))
             w2 == Insert(w1, "data_stream_fields", {dsID, LastKey(w1, "fields")}, in.dir,
                          <<d, s, k>>, <<>>)
         IN FieldsLoop(w2, in, d, s, dsID, k + 1)

RECURSIVE StreamsLoop(_, _, _, _, _)
\* for _, s := range ds.Manifest.Streams: insertStream, and, in the body
\* of this loop, the fields of fleetpkg.FlattenFields(ds.AllFields())
StreamsLoop(w, in, d, dsID, s) ==
    IF s > in.dataStreams[d].streams THEN w
    ELSE LET w1 == Insert(w, "streams", {dsID}, in.dir, <<d, s, 0>>, <<>>)
         IN StreamsLoop(FieldsLoop(w1, in, d, s, dsID, 1), in, d, dsID, s + 1)

RECURSIVE PipelinesLoop(_, _, _, _, _)
\* for name, pipeline := range ds.Pipelines: the pipeline's row, then the
\* row of its processor
PipelinesLoop(w, in, d, dsID, k) ==
    IF k > in.dataStreams[d].pipelines THEN w
    ELSE LET w1 == Insert(w, "ingest_pipelines", {dsID}, in.dir, <<d, 0, k>>, Path(in))
             w2 == Insert(w1, "ingest_processors", {LastKey(w1, "ingest_pipelines")}, in.dir,
                          <<d, 0, k>>, Path(in))
         IN PipelinesLoop(w2, in, d, dsID, k + 1)

RECURSIVE DataStreamsLoop(_, _, _, _)
\* for _, ds := range in.DataStreams
DataStreamsLoop(w, in, integID, d) ==
    IF d > Len(in.dataStreams) THEN w
    ELSE LET w1 == Insert(w, "data_streams", {integID}, in.dir, <<d, 0, 0>>, Path(in))
             dsID == LastKey(w1, "data_streams")
             w2 == StreamsLoop(w1, in, d, dsID, 1)
             w3 == PipelinesLoop(w2, in, d, dsID, 1)
             w4 == IF in.dataStreams[d].sample
                   THEN Insert(w3, "sample_events", {dsID}, in.dir, <<d, 0, 0>>, Path(in))
                   ELSE w3
         IN DataStreamsLoop(w4, in, integID, d + 1)

RECURSIVE TransformsLoop(_, _, _, _)
\* for _, t := range in.Transforms
TransformsLoop(w, in, integID, k) ==
    IF k > in.transforms THEN w
    ELSE TransformsLoop(Insert(w, "transforms", {integID}, in.dir, <<0, 0, k>>, Path(in)),
                        in, integID, k + 1)

\* the changelog's row, the row of its release and the row of its change
insertChangelog(w, in, integID) ==
    IF ChangelogPresent(in)
    THEN LET w1 == Insert(w, "changelogs", {integID}, in.dir, <<0, 0, 0>>, ChangelogPath(in))
             w2 == Insert(w1, "releases", {LastKey(w1, "changelogs")}, in.dir, <<0, 0, 1>>,
                          Path(in))
         IN Insert(w2, "changes", {LastKey(w2, "releases")}, in.dir, <<0, 0, 1>>, Path(in))
    ELSE w

\* the rows insertPackage writes for a package when no insert fails
insertPackage(w, in) ==
    LET w1 == Insert(w, "integrations", {}, in.dir, <<0, 0, 0>>, Path(in))
        integID == LastKey(w1, "integrations")
        w2 == IF in.build
              THEN Insert(w1, "build_manifests", {integID}, in.dir, <<0, 0, 0>>, Path(in))
              ELSE w1
        w3 == VarsLoop(w2, in, integID, 1)
        w4 == DataStreamsLoop(w3, in, integID, 1)
        w5 == TransformsLoop(w4, in, integID, 1)
    IN insertChangelog(w5, in, integID)

\* a data stream of a package: its streams, the fields of its catalog, its
\* pipelines, each of one processor, and whether it has a sample event
DataStreamDocs ==
    [streams : 0..MaxStreams, fields : 0..MaxCatalog, pipelines : 0..1, sample : BOOLEAN]

\* a package as the document provider may hand it to the writer
PackageDocs(dir) ==
    [dir : {dir}, located : BOOLEAN, build : BOOLEAN, vars : 0..1,
     dataStreams : SeqsUpTo(DataStreamDocs, 1), transforms : 0..1, changelog : 0..1]

\* pkgs of WritePackages: one package, or two of one shape
PackageCorpora ==
    UNION { { [kind |-> "corpus", docs |-> <<doc>>],
              [kind |-> "corpus", docs |-> <<doc, [doc EXCEPT !.dir = 2]>>] }
            : doc \in PackageDocs(1) }

Entities == Vars \cup Fields \cup RowSets \cup PackageCorpora

InitProject ==
    /\ entity \in Entities
    /\ params = None
    /\ pkgs = <<>>
    /\ transport = "stdio"
    /\ BuildIdle
    /\ FlattenIdle

\* id, err := q.InsertVar(ctx, database.InsertVarParams{...})
InsertVar ==
    /\ params = None
    /\ entity.kind = "var"
    /\ params' = insertVar(entity)
    /\ UNCHANGED <<entity, flattenVars, buildVars>>

\* id, err := q.InsertField(ctx, p)
InsertField ==
    /\ params = None
    /\ entity.kind = "field"
    /\ params' = insertField(entity, LookupExternal(entity))
    /\ UNCHANGED <<entity, flattenVars, buildVars>>

\* executeQuery once db.QueryContext has returned its rows
QueryRows ==
    /\ params = None
    /\ entity.kind = "rows"
    /\ params' = RowsResult(entity.columns, entity.rows)
    /\ UNCHANGED <<entity, flattenVars, buildVars>>

\* insertPackage(ctx, db, &in) for the next package of pkgs, committed
InsertPackage ==
    /\ entity.kind = "corpus"
    /\ LET w == IF params = None THEN NoRows
                ELSE [rows |-> params.rows, keys |-> params.keys]
           done == IF params = None THEN 0 ELSE params.done
       IN /\ done < Len(entity.docs)
          /\ LET w1 == insertPackage(w, entity.docs[done + 1])
             IN params' = [rows |-> w1.rows, keys |-> w1.keys, done |-> done + 1]
    /\ UNCHANGED <<entity, flattenVars, buildVars>>

NextProject == InsertVar \/ InsertField \/ QueryRows \/ InsertPackage

SpecProject == InitProject /\ [][NextProject]_vars

-----------------------------------------------------------------------------
(* The flattener's specification: a pipeline's list is flattened, flattened *)
(* again, and each record's attributes are marshalled for its row.          *)

InitFlatten ==
    /\ procs \in ProcLists
    /\ basePath \in BasePaths
    /\ flat = None
    /\ flat2 = None
    /\ orders = <<>>
    /\ marshalled = <<>>
    /\ pkgs = <<>>
    /\ transport = "stdio"
    /\ BuildIdle
    /\ ProjIdle

\* processors, err := FlattenProcessors(pipeline.Processors, "/processors")
Flatten ==
    /\ flat = None
    /\ \E order \in Orders :
          /\ flat' = FlattenProcessors(procs, basePath, order)
          /\ orders' = Append(orders, order)
    /\ UNCHANGED <<procs, basePath, flat2, marshalled, buildVars, projVars>>

\* a second call with the same arguments
FlattenAgain ==
    /\ flat # None
    /\ flat2 = None
    /\ \E order \in Orders :
          /\ flat2' = FlattenProcessors(procs, basePath, order)
          /\ orders' = Append(orders, order)
    /\ UNCHANGED <<procs, basePath, flat, marshalled, buildVars, projVars>>

\* attrs, err := proc.MarshalAttributes(), for the next record of the loop
\* over the flattened processors; the loop returns at the first error.
Marshal ==
    /\ flat # None
    /\ ~flat.panic
    /\ Len(marshalled) < Len(flat.result)
    /\ \A n \in 1..Len(marshalled) : ~marshalled[n].err
    /\ marshalled' = Append(marshalled, MarshalAttributes(flat.result[Len(marshalled) + 1]))
    /\ UNCHANGED <<procs, basePath, flat, flat2, orders, buildVars, projVars>>

\* return fmt.Errorf("failed to marshal processor attributes: %w", err)
MarshalFailure(proc, cause) ==
    [msg |-> "failed to marshal processor attributes", cause |-> cause]

\* the error the loop over the flattened processors has returned, if any
ProcessorsError ==
    IF marshalled # <<>> /\ marshalled[Len(marshalled)].err
    THEN MarshalFailure(flat.result[Len(marshalled)], "json: unsupported value")
    ELSE NoErr

\* the records handed to q.InsertIngestProcessor so far, in the transaction
InsertedProcessors == { n \in 1..Len(marshalled) : ~marshalled[n].err }

NextFlatten == Flatten \/ FlattenAgain \/ Marshal

SpecFlatten == InitFlatten /\ [][NextFlatten]_vars

-----------------------------------------------------------------------------
(* The input tree, read declaratively: a node is named by its path, the     *)
(* 1-based positions leading to it through the on_failure lists.            *)

RECURSIVE NodePaths(_)
\* the paths of the nodes (the entries that are not nil) below a list
NodePaths(list) ==
    UNION { IF list[k].nil THEN {}
            ELSE {<<k>>} \cup { <<k>> \o q : q \in NodePaths(list[k].OnFailure) }
            : k \in 1..Len(list) }

RECURSIVE NodeAt(_, _)
NodeAt(list, q) ==
    IF Len(q) = 1 THEN list[q[1]] ELSE NodeAt(list[q[1]].OnFailure, Tail(q))

Front(q) == SubSeq(q, 1, Len(q) - 1)
Last(q) == q[Len(q)]

\* q strictly extends r: the node at q lies in the failure subtree of r
Below(q, r) == Len(q) > Len(r) /\ SubSeq(q, 1, Len(r)) = r

\* q and r part at some list, where q takes the earlier entry
Earlier(q, r) ==
    \E m \in 1..Len(q) :
        /\ m <= Len(r)
        /\ SubSeq(q, 1, m - 1) = SubSeq(r, 1, m - 1)
        /\ q[m] < r[m]

\* the path of the node a record was made from (source lines are distinct)
RecPath(r) == CHOOSE q \in NodePaths(procs) : NodeAt(procs, q).Line = r.Line

FlatOk == flat # None /\ ~flat.panic

\* one record per node, nodes of a list in input order, the records of a
\* node's failure subtree right before the node's own record
ChildrenFirst(res) ==
    /\ Len(res) = Cardinality(NodePaths(procs))
    /\ \A q \in NodePaths(procs) : \E n \in 1..Len(res) : res[n].Line = NodeAt(procs, q).Line
    /\ \A a, b \in 1..Len(res) :
          /\ Earlier(RecPath(res[a]), RecPath(res[b])) => a < b
          /\ Below(RecPath(res[a]), RecPath(res[b])) => a < b
    /\ \A b \in 1..Len(res) :
          LET sub == { a \in 1..Len(res) : Below(RecPath(res[a]), RecPath(res[b])) }
          IN sub = (b - Cardinality(sub))..(b - 1)

\* the pipeline [A(on_failure [B]), C]
IsABC ==
    /\ Len(procs) = 2 /\ ~procs[1].nil /\ ~procs[2].nil
    /\ Len(procs[1].OnFailure) = 1 /\ ~procs[1].OnFailure[1].nil
    /\ Len(procs[1].OnFailure[1].OnFailure) = 0
    /\ Len(procs[2].OnFailure) = 0

-----------------------------------------------------------------------------
\* C1: for every processor tree FlattenProcessors returns exactly one record
\* per non-nil node, children first: the nodes of one list in input order and
\* the records of a node's on_failure subtree right before the node's own
\* record; [A(on_failure [B]), C] flattens to [B, A, C].
C1_ChildrenFirstForEveryTree ==
    flat # None =>
        /\ ~flat.panic
        /\ ChildrenFirst(flat.result)
        /\ IsABC =>
              [n \in 1..Len(flat.result) |-> flat.result[n].Line]
                  = <<procs[1].OnFailure[1].Line, procs[1].Line, procs[2].Line>>

\* The order C1 states holds of every call that returns.
ChildrenFirstWhenReturned ==
    FlatOk =>
        /\ ChildrenFirst(flat.result)
        /\ IsABC =>
              [n \in 1..Len(flat.result) |-> flat.result[n].Line]
                  = <<procs[1].OnFailure[1].Line, procs[1].Line, procs[2].Line>>

RECURSIVE IndexPointer(_)
\* the locator made of indices alone: P/i, P/i/on_failure/j, ...
IndexPointer(q) ==
    IF Len(q) = 1 THEN basePath \o <<Itoa(q[1] - 1)>>
    ELSE IndexPointer(Front(q)) \o <<"on_failure", Itoa(Last(q) - 1)>>

C4_NilKeepsIndex ==
    FlatOk =>
        /\ Len(flat.result) = Cardinality(NodePaths(procs))
        /\ \A n \in 1..Len(flat.result) :
              LET r == flat.result[n]
                  q == RecPath(r)
              IN r.JSONPointer[Len(r.JSONPointer) - 1] = Itoa(Last(q) - 1)
        /\ (Len(procs) = 2 /\ procs[1].nil /\ ~procs[2].nil) =>
              flat.result[Len(flat.result)].JSONPointer = basePath \o <<"1", procs[2].Type>>

C4_Witness ==
    /\ FlatOk
    /\ Len(procs) = 2 /\ procs[1].nil /\ ~procs[2].nil
    /\ Len(flat.result) = 1
    /\ flat.result[1].JSONPointer[2] = "1"

\* C5: two calls on the same tree and base path return the same sequence of
\* records, whatever order the map iterations of either call took.
C5_Deterministic == flat2 # None => flat2 = flat

C5_Witness ==
    /\ flat2 # None /\ FlatOk
    /\ orders[1] # orders[2]
    /\ \E n \in 1..Len(flat.result) : Cardinality(DOMAIN flat.result[n].Attributes) >= 2

\* C6: the record of a node with a non-empty failure branch has, under the
\* key on_failure, a list with one entry per node of that branch, in order,
\* each mapping the node's type to the node's own attributes only; the record
\* of a node without a failure branch has no on_failure key; the other
\* attributes of a record are those of its node.
C6_OnFailureSummary ==
    FlatOk =>
        \A n \in 1..Len(flat.result) :
            LET r == flat.result[n]
                p == NodeAt(procs, RecPath(r))
            IN /\ DOMAIN r.Attributes \ {"on_failure"} = DOMAIN p.Attributes
               /\ \A k \in DOMAIN p.Attributes : r.Attributes[k] = p.Attributes[k]
               /\ Len(p.OnFailure) = 0 => "on_failure" \notin DOMAIN r.Attributes
               /\ Len(p.OnFailure) > 0 =>
                     /\ "on_failure" \in DOMAIN r.Attributes
                     /\ r.Attributes["on_failure"].kind = "list"
                     /\ Len(r.Attributes["on_failure"].l) = Len(p.OnFailure)
                     /\ \A j \in 1..Len(p.OnFailure) :
                           LET e == r.Attributes["on_failure"].l[j] IN
                           /\ e.kind = "map"
                           /\ DOMAIN e.m = {p.OnFailure[j].Type}
                           /\ e.m[p.OnFailure[j].Type] = Map(p.OnFailure[j].Attributes)

C6_Witness ==
    /\ FlatOk
    /\ \E n \in 1..Len(flat.result) :
          LET p == NodeAt(procs, RecPath(flat.result[n])) IN
          /\ Len(p.OnFailure) > 0
          /\ Len(p.OnFailure[1].OnFailure) > 0
          /\ "on_failure" \in DOMAIN flat.result[n].Attributes

RECURSIVE Serializable(_)
\* no NaN anywhere in the value
Serializable(v) ==
    CASE v.kind = "str" -> TRUE
      [] v.kind = "nan" -> FALSE
      [] v.kind = "list" -> \A j \in 1..Len(v.l) : Serializable(v.l[j])
      [] v.kind = "map" -> \A k \in DOMAIN v.m : Serializable(v.m[k])

\* C7 (as stated): MarshalAttributes returns the empty string without error
\* for an empty attribute set, and otherwise a JSON object that decodes to a
\* map with every attribute key of the record.
C7_MarshalAlwaysDecodes ==
    \A n \in 1..Len(marshalled) :
        LET attrs == flat.result[n].Attributes
            m == marshalled[n]
        IN /\ DOMAIN attrs = {} =>
                 ~m.err /\ m.text = <<>> /\ ~sqlStringEmtpyIsNull(m.text).Valid
           /\ DOMAIN attrs # {} =>
                 /\ ~m.err
                 /\ Unmarshal(m.text).ok
                 /\ DOMAIN attrs \subseteq DOMAIN Unmarshal(m.text).decoded

\* C7 (amended): MarshalAttributes returns the empty string without error
\* for an empty attribute set (stored as null); for a non-empty set whose
\* values can all be serialized it returns a JSON object that decodes to a
\* map with every attribute key of the record, on_failure included; for a
\* non-empty set with a value json.Marshal rejects it returns an error and
\* the empty string.
C7_MarshalDecodesOrFails ==
    \A n \in 1..Len(marshalled) :
        LET attrs == flat.result[n].Attributes
            m == marshalled[n]
        IN /\ DOMAIN attrs = {} =>
                 ~m.err /\ m.text = <<>> /\ ~sqlStringEmtpyIsNull(m.text).Valid
           /\ (DOMAIN attrs # {} /\ Serializable(Map(attrs))) =>
                 /\ ~m.err
                 /\ Unmarshal(m.text).ok
                 /\ DOMAIN attrs \subseteq DOMAIN Unmarshal(m.text).decoded
                 /\ sqlStringEmtpyIsNull(m.text).Valid
           /\ (DOMAIN attrs # {} /\ ~Serializable(Map(attrs))) =>
                 m.err /\ m.text = <<>>

C7_Witness ==
    /\ Len(marshalled) >= 2
    /\ \E n \in 1..Len(marshalled) :
          ~marshalled[n].err /\ marshalled[n].text = <<>>
    /\ \E n \in 1..Len(marshalled) :
          /\ ~marshalled[n].err
          /\ "on_failure" \in DOMAIN flat.result[n].Attributes
          /\ "on_failure" \in DOMAIN Unmarshal(marshalled[n].text).decoded

-----------------------------------------------------------------------------
\* C8: a package is written atomically: when an insert of insertPackage
\* fails (the third of five, say), the transaction is rolled back and the
\* store holds no row of the package; rows of a package are in the store
\* only once all its inserts succeeded and its transaction committed.
C8_AtomicPackageWrite ==
    \A u \in 1..Len(pkgs) :
        /\ txlog[u].st \in {"failed", "rolledback"} => Rows(u) \cap store = {}
        /\ Rows(u) \cap store # {} =>
              /\ txlog[u] = [st |-> "committed", n |-> Statements(u)]
              /\ Rows(u) \subseteq store

\* what holds of C8 in the code: a failed insert leaves no row, and the
\* rows of a package get into the store by a commit only, all of them
\* unless insertPackage panicked
AtomicUnlessPanicked ==
    \A u \in 1..Len(pkgs) :
        /\ txlog[u].st \in {"none", "begun", "failed", "panicked", "rolledback",
                             "commitfailed"} => Rows(u) \cap store = {}
        /\ txlog[u].st = "committed" =>
              /\ Rows(u) \cap store = { r \in Rows(u) : r.n <= txlog[u].n }
              /\ txlog[u].n < Statements(u) => bpc = "crashed"

\* an insert failed as the third of five and the package was rolled back
ThirdOfFiveRolledBack ==
    /\ bpc = "done"
    /\ Len(pkgs) = 2
    /\ Statements(2) = 5
    /\ txlog[1].st = "committed"
    /\ txlog[2] = [st |-> "rolledback", n |-> 2]
    /\ Rows(1) \subseteq store
    /\ Rows(2) \cap store = {}

\* the build has stopped without a store to publish
BuildFailed == bpc = "crashed" \/ (bpc \in {"report", "done"} /\ db = "none" /\ initErr # NoErr)

\* the write of package u has failed: by an error, or by a panic
WriteOfFailed(u) ==
    \/ txlog[u].st \in {"rolledback", "commitfailed"}
    \/ txlog[u].st = "committed" /\ txlog[u].n < Statements(u)

\* C9: the build is all-or-nothing: once loading or writing a package has
\* failed, no transaction of a later package is started, the build has
\* failed for good, the published reference stays unset, and no query
\* handler ever gets a store that lacks part of the corpus.
C9_AllOrNothingBuild ==
    /\ \A u \in 1..Len(pkgs) :
          (WriteOfFailed(u) \/ txlog[u].st \in {"failed", "panicked"}) =>
              /\ \A v \in (u + 1)..Len(pkgs) : txlog[v].st = "none"
              /\ dbPtr = "none" /\ nStore = 0
    /\ \A u \in 1..Len(pkgs) : WriteOfFailed(u) => BuildFailed
    /\ \A u \in 1..Len(pkgs) :
          txlog[u].st \in {"rolledback", "commitfailed"} /\ bpc # "crashed" =>
              initErr.op = "insert" /\ initErr.pkg = u
    /\ initErr # NoErr =>
          /\ BuildFailed
          /\ dbPtr = "none" /\ nStore = 0
          /\ initErr.op = "load" => \A u \in 0..Len(pkgs) : txlog[u].st = "none"
    /\ \A o \in observed : o.ref # "none" => o.built

C9_Witness ==
    /\ bpc = "done"
    /\ Len(pkgs) = 2
    /\ txlog[1].st = "rolledback"
    /\ txlog[2].st = "none"
    /\ initErr.op = "insert" /\ initErr.pkg = 1
    /\ dbPtr = "none"
    /\ observed = {[ref |-> "none", built |-> FALSE]}

\* C10: whatever the interleaving of the build with the query handlers, the
\* published reference is written at most once, and only with the read-only
\* handle opened after every package was committed and the writable handle
\* closed; a handler that loads it gets either unset or that fully built
\* store; once set it is not unset or replaced, and its handle stays open.
C10_PublishedOnceWhenBuilt ==
    /\ nStore <= 1
    /\ nStore = 0 => dbPtr = "none"
    /\ nStore = 1 => dbPtr = "ro" /\ Built
    /\ \A o \in observed : o.ref = "none" \/ (o.ref = "ro" /\ o.built)

C10_Witness ==
    /\ nStore = 1
    /\ dbPtr = "ro"
    /\ Len(pkgs) = 2
    /\ [ref |-> "none", built |-> FALSE] \in observed
    /\ [ref |-> "ro", built |-> TRUE] \in observed
    /\ ctxDone

\* C11: when the first build fails, the store reference stays unset, no
\* build is retried, every later query gets the not-ready result, and the
\* failed build does not end the process: run never returns its error.
C11_ProcessContinuesAfterFailedBuild ==
    BuildState = "Failed" =>
        /\ dbPtr = "none"
        /\ bpc \in {"report", "done", "crashed"}
        /\ (reply # None /\ reply.tool = "query" /\ reply.during = "Failed") =>
              reply.result = NotReady.result
        /\ runErr # "init"

\* C11 as the code has it: when the first build fails, the store reference
\* stays unset, no build is retried and every query handled from then on
\* gets the not-ready result, but the process does not go on: run takes
\* the error from initErrCh and returns it, never settling to wait for the
\* server, and a build that panicked has ended the process.
C11_FailedBuildEndsRun ==
    /\ BuildState = "Failed" =>
          /\ dbPtr = "none" /\ nStore = 0
          /\ bpc \in {"report", "done", "crashed"}
          /\ bpc = "crashed" => mainpc = "exited" /\ runErr = "panic"
          /\ mainpc # "waitServe"
          /\ (mainpc = "select" /\ bpc = "done") => initErrCh.buf = <<initErr>>
          /\ ~initErrCh.closed
    /\ (reply # None /\ reply.tool = "query" /\ reply.during = "Failed") =>
          /\ BuildState = "Failed"
          /\ reply.result = NotReady.result
          /\ reply.err = "nil"
    /\ runErr = "init" => BuildState = "Failed" /\ Returned /\ bpc = "done"

C11_Witness ==
    /\ mainpc = "returned"
    /\ runErr = "init"
    /\ initErr # NoErr
    /\ reply # None
    /\ reply.tool = "query"
    /\ reply.during = "Failed"

C13_CatalogIsStatic ==
    /\ (reply # None /\ reply.tool = "tables") =>
          /\ reply.result = [isError |-> FALSE, content |-> [schemas |-> TableSchemas]]
          /\ reply.err = "nil"
    /\ Serving => ENABLED GetSQLTables

C13_Witness ==
    /\ reply # None
    /\ reply.tool = "tables"
    /\ reply.during = "Failed"
    /\ dbPtr = "none"
    /\ ~reply.result.isError

\* C14: a statement the store rejects is reported as a result payload with
\* the store's message, not as a failure of the handler; it changes neither
\* the store nor the published reference, and a valid query handled after
\* it against the same store gets its rows.
C14_RejectedStatementIsPayload ==
    /\ (reply # None /\ reply.tool = "query" /\ reply.rejected) =>
          /\ reply.result.isError
          /\ reply.result.content.msg = "failed to execute query"
          /\ reply.result.content.cause = QueryError(reply.ref, reply.stmt,
                                              reply.result.content.cause = "context canceled")
          /\ reply.result.content.cause # ""
          /\ reply.err = "nil"
          /\ dbPtr = "ro" /\ reply.ref = "ro"
          /\ handles.ro = "open"
    /\ \A r \in store : r.unit \in 0..Len(pkgs)
    /\ (reply # None /\ reply.tool = "query" /\ reply.afterRejected /\ reply.ref # "none"
            /\ reply.stmt = "count" /\ ~reply.rejected) =>
          /\ reply.result = [isError |-> FALSE,
                             content |-> [array |-> <<[c \in {"n"} |->
                                                          IntVal(Cardinality(store))]>>]]
          /\ reply.err = "nil"
          /\ Built

C14_Witness ==
    /\ reply # None
    /\ reply.tool = "query"
    /\ reply.afterRejected
    /\ reply.stmt = "count"
    /\ ~reply.result.isError
    /\ Len(pkgs) = 2

\* C15: a variable whose default value is an explicitly empty list is
\* stored with a null default_value, exactly as one with no default value.
C15_EmptyDefaultIsNull ==
    (params # None /\ entity.kind = "var" /\ entity.Default \in {NIL, List(<<>>)}) =>
        /\ params.DefaultValue = NullString
        /\ params = insertVar([entity EXCEPT !.Default = NIL])

C15_Witness ==
    /\ params # None
    /\ entity.kind = "var"
    /\ entity.Default = List(<<>>)
    /\ ~params.DefaultValue.Valid

\* C16: when a field declares a local type and its external reference
\* resolves to a definition that supplies a type too, the row keeps the
\* local type.
C16_LocalTypeKept ==
    (params # None /\ entity.kind = "field" /\ entity.Type # <<>>
        /\ LookupExternal(entity) # NIL) =>
        params.Type = [String |-> entity.Type, Valid |-> TRUE]

C16_Witness ==
    /\ params # None
    /\ entity.kind = "field"
    /\ entity.Type = <<"keyword">>
    /\ LookupExternal(entity) # NIL
    /\ LookupExternal(entity).DataType = <<"long">>
    /\ params.Type.String = <<"keyword">>

\* the rows a reply should hold for a query result: row i maps every
\* column to its value of row i, a byte string as its text
RowsAsClaimed(columns, rows, array) ==
    /\ Len(array) = Len(rows)
    /\ \A i \in 1..Len(rows) :
          /\ Cardinality(DOMAIN array[i]) = Len(columns)
          /\ \A j \in 1..Len(columns) :
                /\ columns[j] \in DOMAIN array[i]
                /\ array[i][columns[j]] =
                      IF "bytes" \in DOMAIN rows[i][j] THEN TextVal(rows[i][j].bytes)
                      ELSE rows[i][j]

\* C17: the result of a successful statement is the list of its rows in the
\* order the store returned them, each a mapping with one entry per result
\* column from the column's name to its value, byte strings as text and
\* every other value unchanged.
C17_RowsAreOrderedMappings ==
    (params # None /\ entity.kind = "rows") =>
        /\ ~params.result.isError
        /\ "array" \in DOMAIN params.result.content
        /\ RowsAsClaimed(entity.columns, entity.rows, params.result.content.array)

\* what holds of C17 in the code: so it is for a result of at least one
\* row, with columns of distinct names and finite numbers only
RowsWhenRegular ==
    (params # None /\ entity.kind = "rows" /\ entity.rows # <<>>
        /\ Cardinality({entity.columns[j] : j \in 1..Len(entity.columns)}) = Len(entity.columns)
        /\ \A i \in 1..Len(entity.rows) : \A j \in 1..Len(entity.columns) :
              entity.rows[i][j] # InfVal) =>
        /\ ~params.result.isError
        /\ params.err = "nil"
        /\ "array" \in DOMAIN params.result.content
        /\ RowsAsClaimed(entity.columns, entity.rows, params.result.content.array)

\* the same column name twice: one entry is left, with the later value
DuplicateColumnCollapsed ==
    /\ params # None
    /\ entity.kind = "rows"
    /\ entity.columns = <<"id", "id">>
    /\ entity.rows = << <<IntVal(1), BytesVal("x")>> >>
    /\ params.result.content = [array |-> <<[c \in {"id"} |-> TextVal("x")]>>]

\* no row at all: the text is null, not an empty list
EmptyResultIsNull ==
    /\ params # None
    /\ entity.kind = "rows"
    /\ entity.rows = <<>>
    /\ params.result = [isError |-> FALSE, content |-> [null |-> TRUE]]

\* C18: FlattenProcessors completes without error or crash on every tree,
\* also one with a nil entry in the root list or in a failure branch at any
\* depth, and skips every nil entry: the records are those of the nodes.
C18_NilEntriesSkipped ==
    flat # None =>
        /\ ~flat.panic
        /\ { flat.result[n].Line : n \in 1..Len(flat.result) }
              = { NodeAt(procs, q).Line : q \in NodePaths(procs) }

RECURSIVE HasNilBelowRoot(_, _)
\* some failure branch, at any depth, holds a nil entry
HasNilBelowRoot(list, atRoot) ==
    \E k \in 1..Len(list) :
        IF list[k].nil THEN ~atRoot ELSE HasNilBelowRoot(list[k].OnFailure, FALSE)

\* what holds of C18 in the code: the call panics exactly when a failure
\* branch holds a nil entry; nil entries of the root list are skipped
PanicsOnNilInFailureBranch ==
    flat # None => (flat.panic <=> HasNilBelowRoot(procs, TRUE))

\* C19: when the attributes of some node cannot be serialized, the
\* flattening of the pipeline fails with an error that names the locator of
\* that node, and no record of the pipeline's tree has been emitted.
C19_SerializationFailureNamesLocator ==
    ProcessorsError # NoErr =>
        /\ "JSONPointer" \in DOMAIN ProcessorsError
        /\ ProcessorsError.JSONPointer = flat.result[Len(marshalled)].JSONPointer
        /\ InsertedProcessors = {}

\* what holds of C19 in the code: FlattenProcessors itself returns every
\* record; the loop that marshals and inserts them stops at the first record
\* that does not serialize, with an error that names no locator
MarshalFailureStopsLoop ==
    /\ \A n \in 1..Len(marshalled) : marshalled[n].err =>
          /\ n = Len(marshalled)
          /\ ~Serializable(Map(flat.result[n].Attributes))
    /\ ProcessorsError # NoErr =>
          /\ DOMAIN ProcessorsError = {"msg", "cause"}
          /\ InsertedProcessors = 1..(Len(marshalled) - 1)

\* the second record fails to serialize after the first was inserted
SecondRecordFails ==
    /\ ProcessorsError # NoErr
    /\ Len(marshalled) = 2
    /\ InsertedProcessors = {1}

\* the first package, in input order, whose write failed
FirstFailed ==
    CHOOSE u \in 1..Len(pkgs) :
        /\ txlog[u] # [st |-> "committed", n |-> Statements(u)]
        /\ \A v \in 1..(u - 1) : txlog[v] = [st |-> "committed", n |-> Statements(v)]

\* C20: when writing a package fails, the error WritePackages returns names
\* the failing package by its directory and wraps the cause; the package
\* named is the first one, in input order, whose write failed.
C20_ErrorNamesFirstFailedPackage ==
    (initErr # NoErr /\ initErr.op = "insert") =>
        /\ \E u \in 1..Len(pkgs) : txlog[u] # [st |-> "committed", n |-> Statements(u)]
        /\ initErr.pkg = pkgs[FirstFailed].dir
        /\ initErr.cause = CASE txlog[FirstFailed].st = "none" -> "begin"
                             [] txlog[FirstFailed].st = "rolledback" -> "exec"
                             [] txlog[FirstFailed].st = "commitfailed" -> "commit"
                             [] OTHER -> "none"
        /\ txlog[0] = [st |-> "committed", n |-> NumCreates]

C20_Witness ==
    /\ bpc = "done"
    /\ Len(pkgs) = 2
    /\ initErr # NoErr
    /\ initErr.op = "insert"
    /\ initErr.pkg = pkgs[1].dir
    /\ initErr.cause = "exec"
    /\ txlog[1].st = "rolledback"
    /\ txlog[2].st = "none"


\* C21: in a build, the tables are created once, in a transaction of their
\* own that has committed before the transaction of the first package
\* begins; when a create statement fails that transaction is rolled back,
\* nothing of it is stored and no package transaction is started.
C21_TablesOnceBeforePackages ==
    /\ (cur = 0 /\ bpc = "begin") => txlog[0].st = "none"
    /\ cur > 0 => txlog[0] = [st |-> "committed", n |-> NumCreates] /\ Rows(0) \subseteq store
    /\ \A u \in 1..Len(pkgs) :
          txlog[u].st # "none" => cur >= u /\ txlog[0].st = "committed"
    /\ txlog[0].st \in {"failed", "rolledback", "commitfailed"} =>
          /\ cur = 0
          /\ Rows(0) \cap store = {}
          /\ \A u \in 1..Len(pkgs) : txlog[u].st = "none"
    /\ (initErr # NoErr /\ initErr.op = "tables") =>
          /\ txlog[0].st = (IF initErr.cause = "exec" THEN "rolledback"
                            ELSE IF initErr.cause = "commit" THEN "commitfailed" ELSE "none")
          /\ handles.rw = "closed"

C21_Witness ==
    /\ initErr # NoErr
    /\ initErr.op = "tables"
    /\ initErr.cause = "exec"
    /\ txlog[0] = [st |-> "rolledback", n |-> 1]
    /\ Len(pkgs) = 2
    /\ bpc = "done"

\* the tables were committed and a package transaction has begun after it
TablesThenPackages ==
    /\ txlog[0].st = "committed"
    /\ cur = 1
    /\ txlog[1].st = "begun"


\* the rows the writer has committed so far, in the order of their inserts
WrittenRows ==
    IF entity # None /\ entity.kind = "corpus" /\ params # None THEN params.rows ELSE <<>>

\* C22: in every committed state of the store, each foreign key of a row
\* is the generated key of a row inserted earlier in the transaction of
\* the same package, and of no row of another package; the rows without a
\* foreign key are the integrations rows and the vars and fields rows,
\* which their join rows reference.
C22_ParentsBeforeChildren ==
    \A i \in 1..Len(WrittenRows) :
        LET row == WrittenRows[i]
        IN /\ row.refs = {} <=> row.table \in {"integrations", "vars", "fields"}
           /\ \A ref \in row.refs :
                 /\ \E j \in 1..(i - 1) :
                       /\ WrittenRows[j].table = ref.table
                       /\ WrittenRows[j].id = ref.id
                       /\ WrittenRows[j].pkg = row.pkg
                 /\ \A j \in 1..Len(WrittenRows) :
                       (WrittenRows[j].table = ref.table /\ WrittenRows[j].id = ref.id) =>
                           WrittenRows[j].pkg = row.pkg

C22_Witness ==
    /\ entity # None /\ entity.kind = "corpus"
    /\ params # None /\ params.done = 2
    /\ \E i \in 1..Len(WrittenRows) :
          /\ WrittenRows[i].table = "data_stream_fields"
          /\ WrittenRows[i].pkg = 2
          /\ WrittenRows[i].refs = {Ref("data_streams", 2), Ref("fields", 4)}
    /\ \E i \in 1..Len(WrittenRows) :
          /\ WrittenRows[i].table = "changes"
          /\ WrittenRows[i].refs = {Ref("releases", 2)}


DocOf(row) == entity.docs[row.pkg]

UnlocatedTreeWritten ==
    /\ entity # None /\ entity.kind = "corpus"
    /\ params # None
    /\ ~entity.docs[1].located
    /\ \E i \in 1..Len(WrittenRows) :
          WrittenRows[i].table = "build_manifests" /\ WrittenRows[i].file_path = <<>>


\* C24: of a composite value written through jsonNullString, an absent
\* value, an empty list and an empty map are all stored as NULL, never as
\* the text [] or {}; a list or map that is not empty is stored as text
\* that is not NULL and decodes back to the value.
C24_EmptyCompositeIsNull ==
    (params # None /\ entity.kind = "var") =>
        /\ entity.Default \in {NIL, List(<<>>), Map(EmptyMap)} =>
              params.DefaultValue = NullString
        /\ params.DefaultValue.String \notin {<<P("["), P("]")>>, <<P("{"), P("}")>>}
        /\ (entity.Default # NIL /\ entity.Default.kind \in {"list", "map"}
              /\ entity.Default \notin {List(<<>>), Map(EmptyMap)}) =>
              /\ params.DefaultValue.Valid
              /\ DecValue(params.DefaultValue.String, 1).ok
              /\ DecValue(params.DefaultValue.String, 1).v = entity.Default

\* what jsonNullString does with an empty map: the text {}, not NULL
EmptyMapStoredAsLiteral ==
    /\ params # None
    /\ entity.kind = "var"
    /\ entity.Default = Map(EmptyMap)
    /\ params.DefaultValue = [String |-> <<P("{"), P("}")>>, Valid |-> TRUE]


\* what the claim has a row hold for an attribute: the local value when
\* the field declares one, else the value of the resolved definition
LocalElse(local, external) == IF local # <<>> THEN sqlStringEmtpyIsNull(local)
                              ELSE sqlStringEmtpyIsNull(external)

\* C25: when the external reference of a field resolves, type, pattern,
\* normalization-as-array and description are each taken from the resolved
\* definition only if the field declares no local value for that same
\* attribute; an attribute declared locally is stored with its local value.
C25_BackfillOnlyAbsent ==
    (params # None /\ entity.kind = "field" /\ LookupExternal(entity) # NIL) =>
        LET externalDef == LookupExternal(entity)
        IN /\ params.Type = LocalElse(entity.Type, externalDef.DataType)
           /\ params.Pattern = LocalElse(entity.Pattern, externalDef.Pattern)
           /\ params.Description = LocalElse(entity.Description, externalDef.Description)
           /\ params.Normalize =
                 IF entity.Normalize # NIL THEN jsonNullString(entity.Normalize)
                 ELSE IF externalDef.Array THEN jsonNullString(List(<<Str("array")>>))
                 ELSE NullString

\* what holds of C25 in the code: type, pattern and description are filled
\* in only when absent, and the normalization is set to ["array"] when the
\* definition is an array and the field declares no normalizer
BackfillByNormalizer ==
    (params # None /\ entity.kind = "field" /\ LookupExternal(entity) # NIL) =>
        LET externalDef == LookupExternal(entity)
        IN /\ params.Type = LocalElse(entity.Type, externalDef.DataType)
           /\ params.Pattern = LocalElse(entity.Pattern, externalDef.Pattern)
           /\ params.Description = LocalElse(entity.Description, externalDef.Description)
           /\ params.Normalize =
                 IF entity.Normalizer = <<>> /\ externalDef.Array
                 THEN jsonNullString(List(<<Str("array")>>))
                 ELSE jsonNullString(entity.Normalize)

\* a local normalization was replaced by that of the resolved definition
LocalNormalizeOverwritten ==
    /\ params # None
    /\ entity.kind = "field"
    /\ LookupExternal(entity) # NIL
    /\ entity.Normalize = List(<<Str("lowercase")>>)
    /\ params.Normalize = jsonNullString(List(<<Str("array")>>))


\* C26: a field row is marked unresolved exactly when the field declares
\* the external reference and no definition was resolved for it, be it
\* that the package names no reference to look it up in or that the lookup
\* found nothing; a marked row holds the local values only, nothing is
\* filled in, and a field without an external reference is never marked.
C26_UnresolvedExactlyWhenNotFound ==
    (params # None /\ entity.kind = "field") =>
        /\ params.Unresolvable <=>
              (entity.External = <<"ecs">> /\ (~entity.reference \/ entity.ecsField = NIL))
        /\ params.Unresolvable =>
              /\ LookupExternal(entity) = NIL
              /\ params.Type = sqlStringEmtpyIsNull(entity.Type)
              /\ params.Pattern = sqlStringEmtpyIsNull(entity.Pattern)
              /\ params.Description = sqlStringEmtpyIsNull(entity.Description)
              /\ params.Normalize = jsonNullString(entity.Normalize)
              /\ params.External = [String |-> <<"ecs">>, Valid |-> TRUE]
        /\ entity.External = <<>> => ~params.Unresolvable

C26_Witness ==
    /\ params # None
    /\ entity.kind = "field"
    /\ entity.External = <<"ecs">>
    /\ entity.reference
    /\ entity.ecsField = NIL
    /\ entity.Type = <<>>
    /\ params.Unresolvable
    /\ ~params.Type.Valid

\* a field without an external reference was written, and was not marked
UnreferencedFieldUnmarked ==
    /\ params # None
    /\ entity.kind = "field"
    /\ entity.External = <<>>
    /\ entity.ecsField # NIL
    /\ ~params.Unresolvable


\* C27: the handle that is published is the one got by opening the file
\* read-only after the writable handle was closed; the writable handle is
\* never in the shared reference, no handler ever loads it, and when the
\* write phase or the close of the writable handle fails, or the build
\* fails otherwise, nothing is published.
C27_OnlyReadOnlyHandlePublished ==
    /\ dbPtr \in {"none", "ro"}
    /\ dbPtr = "ro" =>
          /\ handles = [rw |-> "closed", ro |-> "open"]
          /\ db = "ro"
          /\ initErr = NoErr
          /\ bpc \in {"closech", "done"}
    /\ handles.rw = "open" => dbPtr = "none"
    /\ (initErr # NoErr \/ bpc = "crashed") => dbPtr = "none" /\ nStore = 0
    /\ \A o \in observed : o.ref \in {"none", "ro"}
    /\ (reply # None /\ reply.tool = "query") => reply.ref \in {"none", "ro"}

C27_Witness ==
    /\ initErr # NoErr
    /\ initErr.op = "close"
    /\ bpc = "done"
    /\ Len(pkgs) = 2
    /\ \A u \in 0..Len(pkgs) : txlog[u].st = "committed"
    /\ handles = [rw |-> "closed", ro |-> "none"]
    /\ dbPtr = "none"
    /\ reply # None /\ reply.tool = "query" /\ reply.ref = "none"

\* the write phase failed, and a handler that ran afterwards got no handle
WriteFailedNothingPublished ==
    /\ initErr # NoErr
    /\ initErr.op = "insert"
    /\ bpc = "done"
    /\ dbPtr = "none"
    /\ reply # None /\ reply.tool = "query" /\ reply.during = "Failed"

\* the build succeeded and a handler has loaded the read-only handle
ReadOnlyPublishedAndLoaded ==
    /\ dbPtr = "ro"
    /\ handles = [rw |-> "closed", ro |-> "open"]
    /\ [ref |-> "ro", built |-> TRUE] \in observed


\* C28: after the interrupt signal has cancelled ctx, run returns, in
\* every state of the build and in both transports: the main task does
\* not stay blocked in its select, waiting for the build, or in its
\* receive from serveDone, waiting for the server (a build that panics
\* ends the process, and run with it).
C28_InterruptEndsRun == ctxDone ~> Returned

\* the interrupt came while the main task waited for the server after a
\* successful build, and run has returned what the server returned
C28_Witness ==
    /\ Returned
    /\ ctxDone
    /\ dbPtr = "ro"
    /\ initErrCh.closed
    /\ runErr = "serve"
    /\ transport = "http"
    /\ serveDone = <<>>

\* the interrupt came during the build, and run returned nil at once
InterruptedWhileBuilding ==
    /\ Returned
    /\ runErr = "nil"
    /\ bpc = "exec"
    /\ dbPtr = "none"
    /\ transport = "stdio"


\* how many rows of the table were written for field k of the catalog of
\* data stream d of the package pkg
FieldRows(table, pkg, d, k) ==
    Cardinality({ i \in 1..Len(WrittenRows) :
                    /\ WrittenRows[i].table = table
                    /\ WrittenRows[i].pkg = pkg
                    /\ WrittenRows[i].node[1] = d
                    /\ WrittenRows[i].node[3] = k })

\* C29: for every data stream, each field of its flattened catalog is
\* written exactly once, as one fields row and one data_stream_fields row,
\* whatever the number of streams the data stream declares.
C29_FieldsWrittenOncePerDataStream ==
    \A n \in 1..Len(WrittenRows) :
        LET pkg == WrittenRows[n].pkg
            doc == entity.docs[pkg]
        IN \A d \in 1..Len(doc.dataStreams) : \A k \in 1..doc.dataStreams[d].fields :
              /\ FieldRows("fields", pkg, d, k) = 1
              /\ FieldRows("data_stream_fields", pkg, d, k) = 1

\* what the code does: the catalog is written once for each stream
FieldsWrittenOncePerStream ==
    \A n \in 1..Len(WrittenRows) :
        LET pkg == WrittenRows[n].pkg
            doc == entity.docs[pkg]
        IN \A d \in 1..Len(doc.dataStreams) : \A k \in 1..doc.dataStreams[d].fields :
              /\ FieldRows("fields", pkg, d, k) = doc.dataStreams[d].streams
              /\ FieldRows("data_stream_fields", pkg, d, k) = doc.dataStreams[d].streams

\* a data stream without streams was written, and its field was not
FieldsMissingWithoutStreams ==
    /\ WrittenRows # <<>>
    /\ Len(entity.docs[1].dataStreams) = 1
    /\ entity.docs[1].dataStreams[1].streams = 0
    /\ entity.docs[1].dataStreams[1].fields = 1
    /\ FieldRows("fields", 1, 1, 1) = 0

\* a data stream of two streams was written, and its field twice
FieldsTwiceWithTwoStreams ==
    /\ WrittenRows # <<>>
    /\ Len(entity.docs[1].dataStreams) = 1
    /\ entity.docs[1].dataStreams[1].streams = 2
    /\ entity.docs[1].dataStreams[1].fields = 1
    /\ FieldRows("fields", 1, 1, 1) = 2
    /\ FieldRows("data_stream_fields", 1, 1, 1) = 2

\* the goroutine of the build runs: the process has not ended
BuildTaskAlive == mainpc # "exited"

\* C30: the build task never blocks when it reports its outcome, and ends
\* once initializeDatabase has returned: whether the main task waits in
\* its select, has returned on an interrupt or has returned because the
\* server stopped, the send of the error, or the store and the close, can
\* always be done; exactly one of send and close happens, once, and none
\* before initializeDatabase has returned.
C30_ReportNeverBlocks ==
    /\ (BuildTaskAlive /\ bpc = "report" /\ initErr # NoErr) => ENABLED SendInitErr
    /\ (BuildTaskAlive /\ bpc = "report" /\ initErr = NoErr) => ENABLED Publish
    /\ (BuildTaskAlive /\ bpc = "closech") => ~initErrCh.closed /\ ENABLED CloseInitErrCh
    /\ Len(initErrCh.buf) <= ChanCap
    /\ bpc # "done" => initErrCh = [buf |-> <<>>, closed |-> FALSE] /\ runErr # "init"
    /\ bpc = "done" =>
          IF initErr # NoErr
          THEN /\ ~initErrCh.closed
               /\ nStore = 0
               /\ (initErrCh.buf = <<initErr>> /\ runErr # "init")
                     \/ (initErrCh.buf = <<>> /\ runErr = "init")
          ELSE /\ initErrCh = [buf |-> <<>>, closed |-> TRUE]
               /\ nStore = 1
               /\ runErr # "init"

\* run had returned nil on an interrupt when the build failed: the error
\* was sent all the same, into the buffer, and the task has ended
C30_Witness ==
    /\ mainpc = "returned"
    /\ runErr = "nil"
    /\ bpc = "done"
    /\ initErr # NoErr
    /\ initErr.op = "insert"
    /\ initErrCh.buf = <<initErr>>

\* run had returned because the server stopped when the build succeeded
ClosedAfterServerStopped ==
    /\ mainpc = "returned"
    /\ runErr = "serve"
    /\ bpc = "done"
    /\ initErrCh.closed
    /\ dbPtr = "ro"

\* the main task took the error from the channel in its select
SentToWaitingMain ==
    /\ runErr = "init"
    /\ bpc = "done"
    /\ initErrCh.buf = <<>>

=============================================================================
